---- MODULE Spec2Model ----
(***************************************************************************)
(* Model of the chat hook (src/src/hooks/useChat.js) of the RAG chat       *)
(* client: the message list, the streaming accumulator, the typing         *)
(* watchdog, the HTTP send path and the retry counter.                     *)
(*                                                                         *)
(* Texts are sequences of tokens, so that concatenation is \o.             *)
(* A message field the code leaves out (isStreaming on user, error,        *)
(* system and HTTP assistant messages) is modelled by its truthiness,      *)
(* FALSE.  Timestamps are not modelled.                                    *)
(***************************************************************************)
EXTENDS Integers, Sequences, FiniteSets, TLC

(* ----------------------------- bounds --------------------------------- *)

MaxMsgs == 3

MaxContent == 2

MaxInflight == 2

MaxChunks == 3

MaxTicks == 4

MaxShown == 5

MaxSockets == 2

MaxFailed == 2

MaxListeners == 3

MaxFrames == 2

MaxAttempts == 7

TickMs == 5000

(* ------------------------- program constants -------------------------- *)

maxRetries == 3

TYPING_TIMEOUT_MS == 10000

MAX_MESSAGE_LENGTH == 500

maxReconnectAttempts == 5

SERVER_ERROR == "Server error - please try again later"

MESSAGE_TYPES == [USER |-> "user", ASSISTANT |-> "assistant", SYSTEM |-> "system", ERROR |-> "error"]

CHAT_STATES == [IDLE |-> "idle", TYPING |-> "typing", SENDING |-> "sending", RECEIVING |-> "receiving", ERROR |-> "error"]

WEBSOCKET_ERROR == "Real-time connection error"

Null == "<null>"

(* ------------------------------ inputs -------------------------------- *)

ChunkTexts == {<<>>, <<"a">>}

OrderedChunkTexts == {<<>>, <<"a">>, <<"b">>}

FullResponses == {<<>>, <<"F">>}

UserTexts == {<<>>, <<" ">>, <<"h">>}

SystemTexts == {<<"s">>}

HttpResponses ==
  { [botResponse |-> <<"R">>, hasContext |-> FALSE, context |-> <<>>, hasSource |-> FALSE, source |-> ""],
    [botResponse |-> <<"R">>, hasContext |-> TRUE, context |-> <<"doc">>, hasSource |-> TRUE, source |-> "rag"] }

HttpErrors == {"Network error - please check your connection"}

TransportErrors == {"", "boom"}

SessionIds == {"A", "B"}

Attempts == {1}

(* ------------------------------ state --------------------------------- *)

VARIABLES
  messages,              \* useState([]) : the message list
  streamingMessageRef,   \* useRef("") : the chunk accumulator
  isLoading,             \* useState(false)
  isTyping,              \* useState(false)
  chatState,             \* useState(CHAT_STATES.IDLE)
  error,                 \* useState(null)
  isWebSocketConnected,  \* useState(false)
  typingTimeoutRef,      \* useRef(null) : "null", "armed" (timer pending) or "dead" (fired or cleared)
  retryCountRef,         \* useRef(0)
  inflight,              \* number of chatAPI.sendMessage promises not yet settled
  rendered,              \* the state values captured by the closures of the last render
  sessionId,             \* the hook's argument, as seen by the effect that last ran
  now,                   \* Date.now()
  chunkLog,              \* history: the message_chunk events of a chunk-only run
  lastCall,              \* history: the last observed call of the hook's API and what it did
  armedAt,               \* the time at which the pending watchdog was set
  lastSignalAt,          \* history: the time of the last typing or message_chunk event
  currentSessionId,      \* useSession: useState(null)
  sessionHistory,        \* useSession: useState([])
  isCreatingSession,     \* useSession: useState(false)
  isClearingSession,     \* useSession: useState(false)
  isLoadingHistory,      \* useSession: useState(false)
  sessionError,          \* useSession: useState(null)
  storage,               \* localStorage["currentSessionId"], or Absent
  persistedFor,          \* the currentSessionId the persistence effect last ran with, or Unmounted
  pending,               \* the sessionAPI requests that have not settled yet
  sessionStats,          \* useSession: useState(null)
  exported,              \* history: the value exportSessionData last returned
  sockets,               \* the sockets io() has created, in order; this.socket is the last
  isConnected,           \* WebSocketService.isConnected
  reconnectAttempts,     \* WebSocketService.reconnectAttempts
  wsSessionId,           \* WebSocketService.currentSessionId
  eventListeners,        \* WebSocketService.eventListeners: event name -> callbacks in order
  serverLog,             \* history: what socket.emit has sent, as [socket, event, arg]
  failedEmitted,         \* history: how many times connection_failed was emitted
  invoked,               \* history: the callbacks the last emit ran, in order
  emitSocket,            \* history: the socket whose event the service last forwarded, or 0
  streamDropped,         \* history: a socket disconnected while a message was streaming
  frames,                \* history: the JSON texts of the frames of the response body
  unread,                \* the characters of the body the reader has not returned yet
  buffer,                \* streamMessage: let buffer = ""
  onChunkCalls,          \* history: the arguments of the onChunk calls, in order
  reads,                 \* history: how many reads returned a value
  readerState            \* "none" before streamMessage, "open" in the loop, "done" after it

hookVars == <<messages, streamingMessageRef, isLoading, isTyping, chatState, error,
              isWebSocketConnected, typingTimeoutRef, retryCountRef, inflight,
              rendered, sessionId, now>>

obsVars == <<lastCall, armedAt, lastSignalAt>>

sessionVars == <<currentSessionId, sessionHistory, isCreatingSession, isClearingSession,
                 isLoadingHistory, sessionError, storage, persistedFor, pending>>

sseVars == <<frames, unread, buffer, onChunkCalls, reads, readerState>>

extraVars == <<sessionStats, exported, sseVars>>

wsVars == <<sockets, isConnected, reconnectAttempts, wsSessionId, eventListeners, serverLog,
            failedEmitted, invoked, emitSocket, streamDropped>>

restVars == <<obsVars, sessionVars, extraVars, wsVars>>

vars == <<frames, unread, buffer, onChunkCalls, reads, readerState, messages, streamingMessageRef, isLoading, isTyping, chatState, error,
          isWebSocketConnected, typingTimeoutRef, retryCountRef, inflight,
          rendered, sessionId, now, chunkLog, restVars>>

(* ----------------------------- helpers -------------------------------- *)

Last(s) == s[Len(s)]

NoMetadata == [context |-> <<>>, source |-> ""]

Message(id, type, content, isStreaming, metadata) ==
  [id |-> id, type |-> type, content |-> content, isStreaming |-> isStreaming, metadata |-> metadata]

MsgId(t, suffix) == [t |-> t, suffix |-> suffix]

RECURSIVE TrimStart(_)
TrimStart(s) == IF s # <<>> /\ Head(s) = " " THEN TrimStart(Tail(s)) ELSE s

RECURSIVE TrimEnd(_)
TrimEnd(s) == IF s # <<>> /\ Last(s) = " " THEN TrimEnd(SubSeq(s, 1, Len(s) - 1)) ELSE s

Trim(s) == TrimEnd(TrimStart(s))

canSendMessage(cs, il) == cs = CHAT_STATES.IDLE /\ ~il

Snapshot == [isLoading |-> isLoading, canSendMessage |-> canSendMessage(chatState, isLoading)]

(* ------------------------------- Init --------------------------------- *)

Absent == "<absent>"

\* what the slot can hold at startup: nothing, the text of a stored null, an id
SavedValues == {Absent, "null", "A"}

Unmounted == "<unmounted>"

NoCall ==
  [op |-> "none", text |-> <<>>, transport |-> FALSE, errorSeen |-> Null,
   result |-> "none", held |-> 0]

\* the events useChat subscribes to, and the one it does not
HookEvents ==
  {"connection_status", "typing", "message_chunk", "message_complete", "error",
   "connection_error", "connection_failed"}

EventNames == HookEvents \cup {"reconnected"}

\* the seven callbacks of one run of the effect of useChat, as one name
HookHandler(s) == [owner |-> "useChat", session |-> s]

NoExport == [sessionId |-> Null, history |-> <<>>, stats |-> Null, exportedAt |-> 0]

ExtraInit ==
  /\ sessionStats = Null
  /\ exported = NoExport
  /\ frames = <<>>
  /\ unread = <<>>
  /\ buffer = <<>>
  /\ onChunkCalls = <<>>
  /\ reads = 0
  /\ readerState = "none"

\* the singleton as constructed
WsFresh ==
  /\ sockets = <<>>
  /\ isConnected = FALSE
  /\ reconnectAttempts = 0
  /\ wsSessionId = Null
  /\ eventListeners = [e \in EventNames |-> <<>>]
  /\ serverLog = {}
  /\ failedEmitted = 0
  /\ invoked = <<>>
  /\ emitSocket = 0
  /\ streamDropped = FALSE

\* the singleton after the first run of the effect of useChat(s)
WsMounted(s) ==
  /\ sockets = <<[session |-> s, connected |-> FALSE]>>
  /\ isConnected = FALSE
  /\ reconnectAttempts = 0
  /\ wsSessionId = Null
  /\ eventListeners = [e \in EventNames |-> IF e \in HookEvents THEN <<HookHandler(s)>> ELSE <<>>]
  /\ serverLog = {}
  /\ failedEmitted = 0
  /\ invoked = <<>>
  /\ emitSocket = 0
  /\ streamDropped = FALSE

ObsInit ==
  /\ lastCall = NoCall
  /\ armedAt = 0
  /\ lastSignalAt = 0

\* useSession before its mount effects have run, with the persisted key as found
SessionUnmounted(saved) ==
  /\ currentSessionId = Null
  /\ sessionHistory = <<>>
  /\ isCreatingSession = FALSE
  /\ isClearingSession = FALSE
  /\ isLoadingHistory = FALSE
  /\ sessionError = Null
  /\ storage = saved
  /\ persistedFor = Unmounted
  /\ pending = {}

\* useSession with session id, all effects run and no request in flight
SessionSettled(id) ==
  /\ currentSessionId = id
  /\ sessionHistory = <<>>
  /\ isCreatingSession = FALSE
  /\ isClearingSession = FALSE
  /\ isLoadingHistory = FALSE
  /\ sessionError = Null
  /\ storage = id
  /\ persistedFor = id
  /\ pending = {}

Init ==
  /\ messages = <<>>
  /\ streamingMessageRef = <<>>
  /\ isLoading = FALSE
  /\ isTyping = FALSE
  /\ chatState = CHAT_STATES.IDLE
  /\ error = Null
  /\ isWebSocketConnected = FALSE
  /\ typingTimeoutRef = "null"
  /\ retryCountRef = 0
  /\ inflight = 0
  /\ rendered = [isLoading |-> FALSE, canSendMessage |-> TRUE]
  /\ sessionId = Null
  /\ now = 0
  /\ chunkLog = <<>>
  /\ ObsInit
  /\ \E saved \in SavedValues : SessionUnmounted(saved)
  /\ ExtraInit
  /\ WsFresh

(* --------------------- transport event handlers ----------------------- *)

\* variant: the branch that updates the open assistant message is missing
ChunkUpdateAlwaysPush(prev, acc, isComplete, t) ==
  Append(prev, Message(MsgId(t, ""), MESSAGE_TYPES.ASSISTANT, acc, ~isComplete, NoMetadata))

\* the list update of handleMessageChunk (setMessages callback)
ChunkUpdate(prev, acc, isComplete, t) ==
  IF prev # <<>> /\ Last(prev).type = MESSAGE_TYPES.ASSISTANT
  THEN [prev EXCEPT ![Len(prev)] =
          [@ EXCEPT !.content = acc, !.isStreaming = ~isComplete]]
  ELSE Append(prev, Message(MsgId(t, ""), MESSAGE_TYPES.ASSISTANT, acc, ~isComplete, NoMetadata))

\* variant: the chunk is put in front of the accumulated text
AccumulatePrepend(acc, chunk) == chunk \o acc

\* streamingMessageRef.current += data.chunk || ""
Accumulate(acc, chunk) == acc \o chunk

\* variant: the chunk is written over the last message whatever its type
HandleMessageChunkAnyTail(chunk, isComplete) ==
  /\ sessionId # Null
  /\ messages' =
       IF messages # <<>>
       THEN [messages EXCEPT ![Len(messages)] =
               [@ EXCEPT !.type = MESSAGE_TYPES.ASSISTANT,
                         !.content = Accumulate(streamingMessageRef, chunk),
                         !.isStreaming = ~isComplete]]
       ELSE ChunkUpdate(messages, Accumulate(streamingMessageRef, chunk), isComplete, now)
  /\ streamingMessageRef' = IF isComplete THEN <<>> ELSE Accumulate(streamingMessageRef, chunk)
  /\ isTyping' = IF isComplete THEN FALSE ELSE isTyping
  /\ chatState' = IF isComplete THEN CHAT_STATES.IDLE ELSE chatState
  /\ UNCHANGED <<isLoading, error, isWebSocketConnected, typingTimeoutRef, retryCountRef,
                 inflight, rendered, sessionId, now>>

HandleMessageChunk(chunk, isComplete) ==
  /\ sessionId # Null
  /\ messages' = ChunkUpdate(messages, Accumulate(streamingMessageRef, chunk), isComplete, now)
  /\ streamingMessageRef' = IF isComplete THEN <<>> ELSE Accumulate(streamingMessageRef, chunk)
  /\ isTyping' = IF isComplete THEN FALSE ELSE isTyping
  /\ chatState' = IF isComplete THEN CHAT_STATES.IDLE ELSE chatState
  /\ UNCHANGED <<isLoading, error, isWebSocketConnected, typingTimeoutRef, retryCountRef,
                 inflight, rendered, sessionId, now>>

MessageChunk ==
  \E chunk \in ChunkTexts, isComplete \in BOOLEAN :
    /\ Len(streamingMessageRef) + Len(chunk) <= MaxContent
    /\ (messages = <<>> \/ Last(messages).type # MESSAGE_TYPES.ASSISTANT) => Len(messages) < MaxMsgs
    /\ HandleMessageChunk(chunk, isComplete)
    /\ UNCHANGED <<chunkLog, restVars>>

\* a message_chunk event of a run that records its chunks
LoggedChunk ==
  \E chunk \in OrderedChunkTexts, isComplete \in BOOLEAN :
    /\ Len(chunkLog) < MaxChunks
    /\ HandleMessageChunk(chunk, isComplete)
    /\ chunkLog' = Append(chunkLog, [chunk |-> chunk, isComplete |-> isComplete])
    /\ UNCHANGED restVars

\* variant: lastMessage.content || data.fullResponse
CompleteUpdateKeepsContent(prev, fullResponse) ==
  IF prev # <<>> /\ Last(prev).type = MESSAGE_TYPES.ASSISTANT
  THEN [prev EXCEPT ![Len(prev)] =
          [@ EXCEPT !.content = IF @ # <<>> THEN @ ELSE fullResponse,
                    !.isStreaming = FALSE]]
  ELSE prev

\* the list update of handleMessageComplete (setMessages callback)
CompleteUpdate(prev, fullResponse) ==
  IF prev # <<>> /\ Last(prev).type = MESSAGE_TYPES.ASSISTANT
  THEN [prev EXCEPT ![Len(prev)] =
          [@ EXCEPT !.content = IF fullResponse # <<>> THEN fullResponse ELSE @,
                    !.isStreaming = FALSE]]
  ELSE prev

HandleMessageComplete(fullResponse) ==
  /\ sessionId # Null
  /\ streamingMessageRef' = <<>>
  /\ isTyping' = FALSE
  /\ chatState' = CHAT_STATES.IDLE
  /\ messages' = CompleteUpdate(messages, fullResponse)
  /\ UNCHANGED <<isLoading, error, isWebSocketConnected, typingTimeoutRef, retryCountRef,
                 inflight, rendered, sessionId, now>>

MessageComplete ==
  \E fullResponse \in FullResponses :
    /\ HandleMessageComplete(fullResponse)
    /\ UNCHANGED <<chunkLog, restVars>>

HandleConnectionStatus(connected) ==
  /\ sessionId # Null
  /\ isWebSocketConnected' = connected
  /\ error' = IF connected THEN Null ELSE error
  /\ retryCountRef' = IF connected THEN 0 ELSE retryCountRef
  /\ UNCHANGED <<messages, streamingMessageRef, isLoading, isTyping, chatState,
                 typingTimeoutRef, inflight, rendered, sessionId, now>>

ConnectionStatus ==
  \E connected \in BOOLEAN :
    /\ HandleConnectionStatus(connected)
    /\ UNCHANGED <<chunkLog, restVars>>

\* clearTimeout on the pending timer, then setTimeout when typing is on
TimerAfterTyping(ref, isTypingNow) ==
  IF isTypingNow THEN "armed" ELSE IF ref = "armed" THEN "dead" ELSE ref

HandleTyping(isTypingNow) ==
  /\ sessionId # Null
  /\ isTyping' = isTypingNow
  /\ typingTimeoutRef' = TimerAfterTyping(typingTimeoutRef, isTypingNow)
  /\ UNCHANGED <<messages, streamingMessageRef, isLoading, chatState, error,
                 isWebSocketConnected, retryCountRef, inflight, rendered, sessionId, now>>

Typing ==
  \E isTypingNow \in BOOLEAN :
    /\ HandleTyping(isTypingNow)
    /\ UNCHANGED <<chunkLog, restVars>>

\* the setTimeout callback of handleTyping
WatchdogFire ==
  /\ typingTimeoutRef = "armed"
  /\ isTyping' = FALSE
  /\ typingTimeoutRef' = "dead"
  /\ UNCHANGED <<messages, streamingMessageRef, isLoading, chatState, error,
                 isWebSocketConnected, retryCountRef, inflight, rendered, sessionId, now,
                 chunkLog, restVars>>

HandleError(message) ==
  /\ sessionId # Null
  /\ error' = IF message # "" THEN message ELSE WEBSOCKET_ERROR
  /\ isTyping' = FALSE
  /\ chatState' = CHAT_STATES.ERROR
  /\ streamingMessageRef' = <<>>
  /\ UNCHANGED <<messages, isLoading, isWebSocketConnected, typingTimeoutRef, retryCountRef,
                 inflight, rendered, sessionId, now>>

TransportError ==
  \E message \in TransportErrors :
    /\ HandleError(message)
    /\ UNCHANGED <<chunkLog, restVars>>

\* `Connection error (attempt ${attempts}/${maxRetries})`
ConnectionErrorText(attempts) ==
  "Connection error (attempt " \o ToString(attempts) \o "/" \o ToString(maxRetries) \o ")"

HandleConnectionError(attempts) ==
  /\ sessionId # Null
  /\ error' = ConnectionErrorText(attempts)
  /\ UNCHANGED <<messages, streamingMessageRef, isLoading, isTyping, chatState,
                 isWebSocketConnected, typingTimeoutRef, retryCountRef, inflight, rendered,
                 sessionId, now>>

ConnectionError ==
  \E attempts \in Attempts :
    /\ HandleConnectionError(attempts)
    /\ UNCHANGED <<chunkLog, restVars>>

HandleConnectionFailed ==
  /\ sessionId # Null
  /\ error' = WEBSOCKET_ERROR
  /\ chatState' = CHAT_STATES.ERROR
  /\ UNCHANGED <<messages, streamingMessageRef, isLoading, isTyping,
                 isWebSocketConnected, typingTimeoutRef, retryCountRef, inflight, rendered,
                 sessionId, now>>

ConnectionFailed ==
  /\ HandleConnectionFailed
  /\ UNCHANGED <<chunkLog, restVars>>

\* the effect on [sessionId]: cleanup of the previous run, then the new run
\* eventListeners after on(event, callback)
On(listeners, event, callback) == [listeners EXCEPT ![event] = Append(@, callback)]

\* listeners.indexOf(callback), counted from 1; 0 when absent
IndexOf(list, callback) ==
  IF \E i \in 1..Len(list) : list[i] = callback
  THEN CHOOSE i \in 1..Len(list) :
         list[i] = callback /\ \A j \in 1..(i - 1) : list[j] # callback
  ELSE 0

\* listeners.splice(index, 1)
Splice(list, i) == SubSeq(list, 1, i - 1) \o SubSeq(list, i + 1, Len(list))

\* eventListeners after off(event, callback)
Off(listeners, event, callback) ==
  IF IndexOf(listeners[event], callback) > 0
  THEN [listeners EXCEPT ![event] = Splice(@, IndexOf(@, callback))]
  ELSE listeners

\* the seven websocketService.on calls of the effect of useChat
Registered(listeners, s) ==
  [e \in EventNames |->
     IF e \in HookEvents THEN On(listeners, e, HookHandler(s))[e] ELSE listeners[e]]

\* the seven websocketService.off calls of the cleanup of that effect
Unregistered(listeners, s) ==
  [e \in EventNames |->
     IF e \in HookEvents THEN Off(listeners, e, HookHandler(s))[e] ELSE listeners[e]]

\* joinSession(sid), called when the socket this.socket is number n
joinSession(sid, n) ==
  IF n = 0 \/ ~isConnected'
  THEN UNCHANGED <<wsSessionId, serverLog>>
  ELSE /\ wsSessionId' = sid
       /\ serverLog' = serverLog \cup {[socket |-> n, event |-> "join_session", arg |-> sid]}

\* WebSocketService.connect(s): a new socket replaces this.socket, then joinSession
connect(s) ==
  /\ Len(sockets) < MaxSockets
  /\ sockets' = Append(sockets, [session |-> s, connected |-> FALSE])
  /\ isConnected' = isConnected
  /\ IF s # Null
     THEN joinSession(s, Len(sockets) + 1)
     ELSE UNCHANGED <<wsSessionId, serverLog>>

\* the effect of useChat on [sessionId]: the cleanup of the previous run, then
\* connect and the registrations of the new run
UseChatEffect(s) ==
  /\ sessionId' = s
  /\ typingTimeoutRef' = IF s # sessionId /\ sessionId # Null /\ typingTimeoutRef = "armed"
                         THEN "dead" ELSE typingTimeoutRef
  /\ UNCHANGED <<messages, streamingMessageRef, isLoading, isTyping, chatState, error,
                 isWebSocketConnected, retryCountRef, inflight, rendered, now>>
  /\ IF s # sessionId /\ s # Null
     THEN connect(s)
     ELSE UNCHANGED <<sockets, isConnected, wsSessionId, serverLog>>
  /\ eventListeners' =
       IF s = sessionId
       THEN eventListeners
       ELSE IF s # Null
            THEN Registered(IF sessionId # Null
                            THEN Unregistered(eventListeners, sessionId)
                            ELSE eventListeners, s)
            ELSE Unregistered(eventListeners, sessionId)
  /\ UNCHANGED <<reconnectAttempts, failedEmitted, invoked, emitSocket, streamDropped>>

SetSession ==
  \E s \in SessionIds \cup {Null} :
    /\ s # sessionId
    /\ UseChatEffect(s)
    /\ UNCHANGED <<chunkLog, obsVars, sessionVars, extraVars>>

(* --------------------------- hook operations -------------------------- *)

UserMessage(message, t) ==
  Message(MsgId(t, "user"), MESSAGE_TYPES.USER, message, FALSE, NoMetadata)

\* variant: the guard tests the text without trimming it
SendAcceptedUntrimmed(message, closureIsLoading) ==
  ~(message = <<>> \/ closureIsLoading)

\* the guard of sendMessageHTTP: the text and the isLoading of the closure
SendAccepted(message, closureIsLoading) ==
  ~(Trim(message) = <<>> \/ closureIsLoading)

\* sendMessageHTTP up to the await of chatAPI.sendMessage
SendStart(message) ==
  /\ Len(messages) < MaxMsgs
  /\ inflight < MaxInflight
  /\ isLoading' = TRUE
  /\ error' = Null
  /\ chatState' = CHAT_STATES.SENDING
  /\ messages' = Append(messages, UserMessage(message, now))
  /\ inflight' = inflight + 1

SendMessageHTTP(message) ==
  IF SendAccepted(message, rendered.isLoading)
  THEN /\ SendStart(message)
       /\ UNCHANGED <<streamingMessageRef, isTyping, isWebSocketConnected, typingTimeoutRef,
                      retryCountRef, rendered, sessionId, now>>
  ELSE UNCHANGED hookVars

\* sendMessage delegates to sendMessageHTTP
SendMessage ==
  \E message \in UserTexts :
    /\ SendMessageHTTP(message)
    /\ UNCHANGED <<chunkLog, restVars>>

HttpMetadata(resp) ==
  [context |-> IF resp.hasContext THEN resp.context ELSE <<>>,
   source |-> IF resp.hasSource THEN resp.source ELSE "api"]

\* the list after the try branch of sendMessageHTTP
HttpSuccessUpdate(prev, resp, t) ==
  Append(prev, Message(MsgId(t, "assistant"), MESSAGE_TYPES.ASSISTANT, resp.botResponse,
                       FALSE, HttpMetadata(resp)))

\* chatAPI.sendMessage resolved: the rest of the try block, then finally
HttpSettleSuccess(resp) ==
    /\ inflight > 0
    /\ Len(messages) < MaxMsgs
    /\ messages' = HttpSuccessUpdate(messages, resp, now)
    /\ chatState' = CHAT_STATES.IDLE
    /\ isLoading' = FALSE
    /\ inflight' = inflight - 1
    /\ UNCHANGED <<streamingMessageRef, isTyping, error, isWebSocketConnected,
                   typingTimeoutRef, retryCountRef, rendered, sessionId, now, chunkLog, restVars>>

HttpResolve == \E resp \in HttpResponses : HttpSettleSuccess(resp)

\* variant: the failure is shown in an assistant bubble
HttpFailureAsAssistant(prev, errorMessage, t) ==
  Append(prev, Message(MsgId(t, "error"), MESSAGE_TYPES.ASSISTANT,
                       <<"Failed to send message: ", errorMessage>>, FALSE, NoMetadata))

\* the list after the catch branch of sendMessageHTTP
HttpFailureUpdate(prev, errorMessage, t) ==
  Append(prev, Message(MsgId(t, "error"), MESSAGE_TYPES.ERROR,
                       <<"Failed to send message: ", errorMessage>>, FALSE, NoMetadata))

\* chatAPI.sendMessage rejected: the catch block, then finally
HttpSettleFailure(errorMessage) ==
    /\ inflight > 0
    /\ Len(messages) < MaxMsgs
    /\ error' = errorMessage
    /\ chatState' = CHAT_STATES.ERROR
    /\ messages' = HttpFailureUpdate(messages, errorMessage, now)
    /\ isLoading' = FALSE
    /\ inflight' = inflight - 1
    /\ UNCHANGED <<streamingMessageRef, isTyping, isWebSocketConnected,
                   typingTimeoutRef, retryCountRef, rendered, sessionId, now, chunkLog, restVars>>

HttpReject == \E errorMessage \in HttpErrors : HttpSettleFailure(errorMessage)

RetryExhaustedText ==
  "Failed to send message after " \o ToString(maxRetries) \o " attempts"

\* variant: the budget test lets one more retry through
RetryAllowedOffByOne(count) == count <= maxRetries

\* the budget test of retryMessage
RetryAllowed(count) == count < maxRetries

RetryMessage ==
  \E message \in UserTexts :
    /\ IF RetryAllowed(retryCountRef)
       THEN /\ retryCountRef' = retryCountRef + 1
            /\ IF SendAccepted(message, rendered.isLoading)
               THEN /\ SendStart(message)
                    /\ UNCHANGED <<streamingMessageRef, isTyping, isWebSocketConnected,
                                   typingTimeoutRef, rendered, sessionId, now>>
               ELSE UNCHANGED <<messages, streamingMessageRef, isLoading, isTyping, chatState,
                                error, isWebSocketConnected, typingTimeoutRef, inflight,
                                rendered, sessionId, now>>
       ELSE /\ error' = RetryExhaustedText
            /\ UNCHANGED <<messages, streamingMessageRef, isLoading, isTyping, chatState,
                           isWebSocketConnected, typingTimeoutRef, retryCountRef, inflight,
                           rendered, sessionId, now>>
    /\ UNCHANGED <<chunkLog, restVars>>

ClearError ==
  /\ error' = Null
  /\ chatState' = CHAT_STATES.IDLE
  /\ retryCountRef' = 0
  /\ UNCHANGED <<messages, streamingMessageRef, isLoading, isTyping, isWebSocketConnected,
                 typingTimeoutRef, inflight, rendered, sessionId, now, chunkLog, restVars>>

\* variant: the list is kept
clearMessagesKeepsList ==
  /\ error' = Null
  /\ chatState' = CHAT_STATES.IDLE
  /\ streamingMessageRef' = <<>>
  /\ UNCHANGED <<messages, isLoading, isTyping, isWebSocketConnected, typingTimeoutRef,
                 retryCountRef, inflight, rendered, sessionId, now>>

clearMessages ==
  /\ messages' = <<>>
  /\ error' = Null
  /\ chatState' = CHAT_STATES.IDLE
  /\ streamingMessageRef' = <<>>
  /\ UNCHANGED <<isLoading, isTyping, isWebSocketConnected, typingTimeoutRef, retryCountRef,
                 inflight, rendered, sessionId, now>>

ClearMessages ==
  /\ clearMessages
  /\ UNCHANGED <<chunkLog, restVars>>

addSystemMessage(content, type) ==
  /\ messages' = Append(messages, Message(MsgId(now, "system"), type, content, FALSE, NoMetadata))
  /\ UNCHANGED <<streamingMessageRef, isLoading, isTyping, chatState, error,
                 isWebSocketConnected, typingTimeoutRef, retryCountRef, inflight, rendered,
                 sessionId, now>>

AddSystemMessage ==
  \E content \in SystemTexts, type \in {MESSAGE_TYPES.SYSTEM, MESSAGE_TYPES.ERROR} :
    /\ Len(messages) < MaxMsgs
    /\ addSystemMessage(content, type)
    /\ UNCHANGED <<chunkLog, restVars>>

\* ChatInterface.handleSendMessage: trim, canSendMessage of the closure,
\* clearError(), then sendMessage(message)
HandleSendInput(inputValue) ==
  IF Trim(inputValue) = <<>> \/ ~rendered.canSendMessage
  THEN UNCHANGED hookVars
  ELSE /\ retryCountRef' = 0
       /\ IF SendAccepted(Trim(inputValue), rendered.isLoading)
          THEN /\ SendStart(Trim(inputValue))
               /\ UNCHANGED <<streamingMessageRef, isTyping, isWebSocketConnected,
                              typingTimeoutRef, rendered, sessionId, now>>
          ELSE /\ error' = Null
               /\ chatState' = CHAT_STATES.IDLE
               /\ UNCHANGED <<messages, streamingMessageRef, isLoading, isTyping,
                              isWebSocketConnected, typingTimeoutRef, inflight, rendered,
                              sessionId, now>>

HandleSendMessage ==
  \E inputValue \in UserTexts :
    /\ HandleSendInput(inputValue)
    /\ UNCHANGED <<chunkLog, restVars>>

\* React re-renders: the callbacks are re-created over the current state
Render ==
  /\ rendered # Snapshot
  /\ rendered' = Snapshot
  /\ UNCHANGED <<messages, streamingMessageRef, isLoading, isTyping, chatState, error,
                 isWebSocketConnected, typingTimeoutRef, retryCountRef, inflight, sessionId,
                 now, chunkLog, restVars>>

Next ==
  \/ MessageChunk
  \/ MessageComplete
  \/ ConnectionStatus
  \/ Typing
  \/ WatchdogFire
  \/ TransportError
  \/ ConnectionError
  \/ ConnectionFailed
  \/ SetSession
  \/ SendMessage
  \/ HttpResolve
  \/ HttpReject
  \/ RetryMessage
  \/ ClearError
  \/ ClearMessages
  \/ AddSystemMessage
  \/ HandleSendMessage
  \/ Render

Spec == Init /\ [][Next]_vars

(* ------------------ the hook mounted with a session ------------------- *)

\* useChat("A") after the first run of its effect: the handlers are registered
InitMounted ==
  /\ messages = <<>>
  /\ streamingMessageRef = <<>>
  /\ isLoading = FALSE
  /\ isTyping = FALSE
  /\ chatState = CHAT_STATES.IDLE
  /\ error = Null
  /\ isWebSocketConnected = FALSE
  /\ typingTimeoutRef = "null"
  /\ retryCountRef = 0
  /\ inflight = 0
  /\ rendered = [isLoading |-> FALSE, canSendMessage |-> TRUE]
  /\ sessionId = "A"
  /\ now = 0
  /\ chunkLog = <<>>
  /\ ObsInit
  /\ SessionSettled("A")
  /\ ExtraInit
  /\ WsMounted("A")

\* the streaming side: transport events and the list operations that need no send
NextStream ==
  \/ MessageChunk
  \/ MessageComplete
  \/ Typing
  \/ WatchdogFire
  \/ TransportError
  \/ AddSystemMessage
  \/ ClearMessages
  \/ ClearError

SpecStream == InitMounted /\ [][NextStream]_vars

\* the sending side: the HTTP exchange, with the chunks that may arrive meanwhile
NextSend ==
  \/ SendMessage
  \/ RetryMessage
  \/ HandleSendMessage
  \/ HttpResolve
  \/ HttpReject
  \/ Render
  \/ MessageChunk
  \/ ClearMessages
  \/ ClearError

SpecSend == InitMounted /\ [][NextSend]_vars

\* lists the hook can hold whose last message is not an assistant message
ChunkInitLists ==
  { <<>>,
    <<UserMessage(<<"h">>, 0)>>,
    <<Message(MsgId(0, "system"), MESSAGE_TYPES.SYSTEM, <<"s">>, FALSE, NoMetadata)>>,
    <<UserMessage(<<"h">>, 0), HttpFailureUpdate(<<>>, "Network error - please check your connection", 0)[1]>>,
    <<HttpSuccessUpdate(<<>>, [botResponse |-> <<"R">>, hasContext |-> FALSE, context |-> <<>>,
                              hasSource |-> FALSE, source |-> ""], 0)[1],
      UserMessage(<<"h">>, 0)>> }

\* a run of message_chunk events only, from an empty accumulator
InitChunks ==
  /\ messages \in ChunkInitLists
  /\ streamingMessageRef = <<>>
  /\ isLoading = FALSE
  /\ isTyping = FALSE
  /\ chatState = CHAT_STATES.IDLE
  /\ error = Null
  /\ isWebSocketConnected = FALSE
  /\ typingTimeoutRef = "null"
  /\ retryCountRef = 0
  /\ inflight = 0
  /\ rendered = [isLoading |-> FALSE, canSendMessage |-> TRUE]
  /\ sessionId = "A"
  /\ now = 0
  /\ chunkLog = <<>>
  /\ ObsInit
  /\ SessionSettled("A")
  /\ ExtraInit
  /\ WsMounted("A")

NextChunks == LoggedChunk

SpecChunks == InitChunks /\ [][NextChunks]_vars

\* one turn: a send on the empty list, its HTTP response and its chunks
TurnSend ==
  /\ messages = <<>>
  /\ inflight = 0
  /\ chunkLog = <<>>
  /\ SendMessage

TurnChunk ==
  /\ messages # <<>>
  /\ IF chunkLog = <<>> THEN TRUE ELSE ~Last(chunkLog).isComplete
  /\ LoggedChunk

NextTurn ==
  \/ TurnSend
  \/ TurnChunk
  \/ HttpResolve

SpecTurn == InitMounted /\ [][NextTurn]_vars

\* the typing watchdog, with the effect re-running on a session change
NextTyping ==
  \/ SetSession
  \/ Typing
  \/ WatchdogFire
  \/ MessageChunk
  \/ MessageComplete
  \/ TransportError

SpecTyping == Init /\ [][NextTyping]_vars /\ WF_vars(WatchdogFire)

(* ---------------------------- the session ----------------------------- *)

\* error.message of a rejected session request; "" stands for none
SessionErrors == {"", "Request failed"}

\* the body of a history response: the messages field may be missing
HistoryResponses ==
  {[defined |-> FALSE, messages |-> <<>>],
   [defined |-> TRUE, messages |-> <<>>],
   [defined |-> TRUE, messages |-> <<"m1", "m2">>]}

\* the persist effect: setItem for an id, removeItem otherwise
Persisted(id) == IF id # Null THEN id ELSE Absent

\* variant: the text "null" is taken for an id
SavedIsSessionNoNullTest(saved) == saved # Absent

\* savedSessionId && savedSessionId !== "null"
SavedIsSession(saved) == saved # Absent /\ saved # "null"

\* variant: the fallback text is missing
SessionErrorTextNoFallback(message) == IF message # "" THEN message ELSE Null

\* error.message || ERROR_MESSAGES.SERVER
SessionErrorText(message) == IF message # "" THEN message ELSE SERVER_ERROR

\* history || []
HistoryOrEmpty(history) == IF history.defined THEN history.messages ELSE <<>>

\* variant: the catch branch keeps the list
HistoryKeptAfterFailure(prev) == prev

\* setSessionHistory([]) in the catch branch of loadSessionHistory
HistoryAfterFailure(prev) == <<>>

Request(kind, sid, ui) == [kind |-> kind, sid |-> sid, ui |-> ui]

Call(op, result, held) ==
  [op |-> op, text |-> <<>>, transport |-> TRUE, errorSeen |-> sessionError,
   result |-> result, held |-> held]

\* the first commit of useSession: the mount effect, then the persist effect
\* of that render and of the render the mount effect causes
Mount ==
  /\ persistedFor = Unmounted
  /\ IF SavedIsSession(storage)
     THEN /\ currentSessionId' = storage
          /\ isLoadingHistory' = TRUE
          /\ pending' = pending \cup {Request("history", storage, FALSE)}
          /\ UseChatEffect(storage)
          /\ UNCHANGED isCreatingSession
     ELSE /\ isCreatingSession' = TRUE
          /\ pending' = pending \cup {Request("create", Null, FALSE)}
          /\ UNCHANGED <<currentSessionId, isLoadingHistory>>
          /\ UNCHANGED <<hookVars, wsVars>>
  /\ sessionError' = Null
  /\ storage' = Persisted(currentSessionId')
  /\ persistedFor' = currentSessionId'
  /\ UNCHANGED <<sessionHistory, isClearingSession, chunkLog, extraVars, obsVars>>

\* createNewSession up to the await of sessionAPI.createSession
CreateNewSession ==
  /\ persistedFor # Unmounted
  /\ Request("create", Null, FALSE) \notin pending
  /\ isCreatingSession' = TRUE
  /\ sessionError' = Null
  /\ pending' = pending \cup {Request("create", Null, FALSE)}
  /\ UNCHANGED <<currentSessionId, sessionHistory, isClearingSession, isLoadingHistory,
                 storage, persistedFor, chunkLog, extraVars, wsVars, obsVars>>
  /\ UNCHANGED hookVars

\* sessionAPI.createSession resolved: the try block, finally, the persist
\* effect and the effect of useChat on the new id
CreateSettleSuccess(newSessionId) ==
  /\ Request("create", Null, FALSE) \in pending
  /\ pending' = pending \ {Request("create", Null, FALSE)}
  /\ currentSessionId' = newSessionId
  /\ sessionHistory' = <<>>
  /\ isCreatingSession' = FALSE
  /\ storage' = Persisted(newSessionId)
  /\ persistedFor' = newSessionId
  /\ UseChatEffect(newSessionId)
  /\ lastCall' = Call("createNewSession", "returned", Len(sessionHistory))
  /\ UNCHANGED <<isClearingSession, isLoadingHistory, sessionError, chunkLog, extraVars,
                 armedAt, lastSignalAt>>

CreateResolve == \E newSessionId \in SessionIds : CreateSettleSuccess(newSessionId)

\* sessionAPI.createSession rejected: the catch block (which rethrows), finally
CreateSettleFailure(message) ==
  /\ Request("create", Null, FALSE) \in pending
  /\ pending' = pending \ {Request("create", Null, FALSE)}
  /\ sessionError' = SessionErrorText(message)
  /\ isCreatingSession' = FALSE
  /\ lastCall' = Call("createNewSession", "thrown", Len(sessionHistory))
  /\ UNCHANGED <<currentSessionId, sessionHistory, isClearingSession, isLoadingHistory,
                 storage, persistedFor, chunkLog, extraVars, wsVars, armedAt, lastSignalAt>>
  /\ UNCHANGED hookVars

CreateReject == \E message \in SessionErrors : CreateSettleFailure(message)

\* loadSessionHistory(sessionId) up to the await of sessionAPI.getSessionHistory
LoadSessionHistory ==
  \E sid \in SessionIds \cup {Null} :
    /\ persistedFor # Unmounted
    /\ Request("history", sid, FALSE) \notin pending
    /\ IF sid = Null
       THEN UNCHANGED <<isLoadingHistory, sessionError, pending>>
       ELSE /\ isLoadingHistory' = TRUE
            /\ sessionError' = Null
            /\ pending' = pending \cup {Request("history", sid, FALSE)}
    /\ UNCHANGED <<currentSessionId, sessionHistory, isCreatingSession, isClearingSession,
                   storage, persistedFor, chunkLog, extraVars, wsVars, obsVars>>
    /\ UNCHANGED hookVars

\* sessionAPI.getSessionHistory resolved: the try block, finally
LoadSettleSuccess(req, history) ==
  /\ req \in pending
  /\ req.kind = "history"
  /\ pending' = pending \ {req}
  /\ sessionHistory' = HistoryOrEmpty(history)
  /\ isLoadingHistory' = FALSE
  /\ lastCall' = Call("loadSessionHistory", "loaded", Len(sessionHistory))
  /\ UNCHANGED <<currentSessionId, isCreatingSession, isClearingSession, sessionError,
                 storage, persistedFor, chunkLog, extraVars, wsVars, armedAt, lastSignalAt>>
  /\ UNCHANGED hookVars

LoadResolve ==
  \E req \in pending, history \in HistoryResponses : LoadSettleSuccess(req, history)

\* sessionAPI.getSessionHistory rejected: the catch block, finally
LoadSettleFailure(req) ==
  /\ req \in pending
  /\ req.kind = "history"
  /\ pending' = pending \ {req}
  /\ sessionHistory' = HistoryAfterFailure(sessionHistory)
  /\ isLoadingHistory' = FALSE
  /\ lastCall' = Call("loadSessionHistory", "failed", Len(sessionHistory))
  /\ UNCHANGED <<currentSessionId, isCreatingSession, isClearingSession, sessionError,
                 storage, persistedFor, chunkLog, extraVars, wsVars, armedAt, lastSignalAt>>
  /\ UNCHANGED hookVars

LoadReject == \E req \in pending : LoadSettleFailure(req)

\* ChatInterface.handleClearSession up to the await inside clearCurrentSession;
\* the Clear button is enabled while the session history is not empty
HandleClearSession ==
  /\ persistedFor # Unmounted
  /\ sessionHistory # <<>>
  /\ IF currentSessionId = Null
     THEN /\ clearMessages
          /\ lastCall' = Call("handleClearSession", "no session", Len(messages))
          /\ UNCHANGED <<isClearingSession, sessionError, pending>>
     ELSE /\ Request("clear", currentSessionId, TRUE) \notin pending
          /\ isClearingSession' = TRUE
          /\ sessionError' = Null
          /\ pending' = pending \cup {Request("clear", currentSessionId, TRUE)}
          /\ UNCHANGED lastCall
          /\ UNCHANGED hookVars
  /\ UNCHANGED <<currentSessionId, sessionHistory, isCreatingSession, isLoadingHistory,
                 storage, persistedFor, chunkLog, extraVars, wsVars, armedAt, lastSignalAt>>

\* sessionAPI.clearSession resolved: clearCurrentSession returns true, then
\* the rest of handleClearSession, or the rest of startNewSession, which
\* goes on to createNewSession up to its await
ClearSettleSuccess(req) ==
  /\ req \in pending
  /\ req.kind = "clear"
  /\ sessionHistory' = <<>>
  /\ isClearingSession' = FALSE
  /\ IF req.ui
     THEN /\ clearMessages
          /\ pending' = pending \ {req}
          /\ lastCall' = Call("handleClearSession", "cleared", Len(messages))
          /\ UNCHANGED <<isCreatingSession, sessionError>>
     ELSE /\ isCreatingSession' = TRUE
          /\ sessionError' = Null
          /\ pending' = (pending \ {req}) \cup {Request("create", Null, TRUE)}
          /\ lastCall' = Call("startNewSession", "cleared", Len(messages))
          /\ UNCHANGED hookVars
  /\ UNCHANGED <<currentSessionId, isLoadingHistory,
                 storage, persistedFor, chunkLog, extraVars, wsVars, armedAt, lastSignalAt>>

ClearResolve == \E req \in pending : ClearSettleSuccess(req)

\* sessionAPI.clearSession rejected: clearCurrentSession records the error and
\* returns false, then the rest of handleClearSession, or the rest of
\* startNewSession, whose createNewSession resets the error before its await
ClearSettleFailure(req, message) ==
  /\ req \in pending
  /\ req.kind = "clear"
  /\ isClearingSession' = FALSE
  /\ IF req.ui
     THEN /\ clearMessages
          /\ sessionError' = SessionErrorText(message)
          /\ pending' = pending \ {req}
          /\ lastCall' = Call("handleClearSession", "failed", Len(messages))
          /\ UNCHANGED isCreatingSession
     ELSE /\ isCreatingSession' = TRUE
          /\ sessionError' = Null
          /\ pending' = (pending \ {req}) \cup {Request("create", Null, TRUE)}
          /\ lastCall' = Call("startNewSession", "clear failed", Len(messages))
          /\ UNCHANGED hookVars
  /\ UNCHANGED <<currentSessionId, sessionHistory, isLoadingHistory,
                 storage, persistedFor, chunkLog, extraVars, wsVars, armedAt, lastSignalAt>>

ClearReject ==
  \E req \in pending, message \in SessionErrors : ClearSettleFailure(req, message)

\* ChatInterface.handleNewSession up to the first await of startNewSession:
\* that of clearCurrentSession when there is a session, else that of
\* createNewSession
HandleNewSession ==
  /\ persistedFor # Unmounted
  /\ Len(messages) < MaxMsgs
  /\ Request("create", Null, TRUE) \notin pending
  /\ IF currentSessionId # Null
     THEN /\ Request("clear", currentSessionId, FALSE) \notin pending
          /\ isClearingSession' = TRUE
          /\ pending' = pending \cup {Request("clear", currentSessionId, FALSE)}
          /\ UNCHANGED isCreatingSession
     ELSE /\ isCreatingSession' = TRUE
          /\ pending' = pending \cup {Request("create", Null, TRUE)}
          /\ UNCHANGED isClearingSession
  /\ sessionError' = Null
  /\ lastCall' = Call("startNewSession", "awaiting", Len(messages))
  /\ UNCHANGED <<currentSessionId, sessionHistory, isLoadingHistory, storage, persistedFor,
                 chunkLog, extraVars, wsVars, armedAt, lastSignalAt>>
  /\ UNCHANGED hookVars

\* sessionAPI.createSession resolved inside startNewSession: the rest of
\* createNewSession, the persist effect, the effect of useChat on the new id,
\* and clearMessages in the rest of handleNewSession
NewSessionSettleSuccess(newSessionId) ==
  /\ Request("create", Null, TRUE) \in pending
  /\ pending' = pending \ {Request("create", Null, TRUE)}
  /\ currentSessionId' = newSessionId
  /\ sessionHistory' = <<>>
  /\ isCreatingSession' = FALSE
  /\ storage' = Persisted(newSessionId)
  /\ persistedFor' = newSessionId
  /\ messages' = <<>>
  /\ error' = Null
  /\ chatState' = CHAT_STATES.IDLE
  /\ streamingMessageRef' = <<>>
  /\ sessionId' = newSessionId
  /\ typingTimeoutRef' = IF newSessionId # sessionId /\ sessionId # Null
                            /\ typingTimeoutRef = "armed"
                         THEN "dead" ELSE typingTimeoutRef
  /\ IF newSessionId # sessionId
     THEN connect(newSessionId)
     ELSE UNCHANGED <<sockets, isConnected, wsSessionId, serverLog>>
  /\ eventListeners' =
       IF newSessionId = sessionId
       THEN eventListeners
       ELSE Registered(IF sessionId # Null
                       THEN Unregistered(eventListeners, sessionId)
                       ELSE eventListeners, newSessionId)
  /\ lastCall' = Call("startNewSession", "returned", Len(messages))
  /\ UNCHANGED <<isLoading, isTyping, isWebSocketConnected, retryCountRef, inflight,
                 rendered, now>>
  /\ UNCHANGED <<reconnectAttempts, failedEmitted, invoked, emitSocket, streamDropped>>
  /\ UNCHANGED <<isClearingSession, isLoadingHistory, sessionError, chunkLog, extraVars,
                 armedAt, lastSignalAt>>

NewSessionResolve ==
  \E newSessionId \in SessionIds : NewSessionSettleSuccess(newSessionId)

\* the text handleNewSession shows when startNewSession throws
NewSessionFailureText(message) == <<"Failed to create new session: ", message>>

\* sessionAPI.createSession rejected inside startNewSession: the catch blocks
\* of createNewSession and startNewSession, then that of handleNewSession
NewSessionSettleFailure(message) ==
  /\ Request("create", Null, TRUE) \in pending
  /\ pending' = pending \ {Request("create", Null, TRUE)}
  /\ sessionError' = SessionErrorText(message)
  /\ isCreatingSession' = FALSE
  /\ addSystemMessage(NewSessionFailureText(message), MESSAGE_TYPES.ERROR)
  /\ lastCall' = Call("startNewSession", "thrown", Len(messages))
  /\ UNCHANGED <<currentSessionId, sessionHistory, isClearingSession, isLoadingHistory,
                 storage, persistedFor, chunkLog, extraVars, wsVars, armedAt, lastSignalAt>>

NewSessionReject ==
  \E message \in SessionErrors : NewSessionSettleFailure(message)

\* addSystemMessage(content) with the default type puts a message on the list
ShowMessage ==
  \E content \in SystemTexts :
    /\ Len(messages) < MaxShown
    /\ addSystemMessage(content, MESSAGE_TYPES.SYSTEM)
    /\ UNCHANGED <<chunkLog, restVars>>

NextSession ==
  \/ Mount
  \/ CreateNewSession
  \/ CreateResolve
  \/ CreateReject
  \/ LoadSessionHistory
  \/ LoadResolve
  \/ LoadReject
  \/ HandleClearSession
  \/ ClearResolve
  \/ ClearReject
  \/ ShowMessage

SpecSession == Init /\ [][NextSession]_vars

\* the New Session button and the requests it leads to
NextNewSession ==
  \/ Mount
  \/ CreateResolve
  \/ CreateReject
  \/ LoadResolve
  \/ LoadReject
  \/ HandleNewSession
  \/ ClearResolve
  \/ ClearReject
  \/ NewSessionResolve
  \/ NewSessionReject

SpecNewSession == Init /\ [][NextNewSession]_vars

(* ---------------------------- the channel ----------------------------- *)

SocketIds == 1..Len(sockets)

\* the callbacks of useChat are among the listeners of the event
HookListens(event) ==
  \E i \in 1..Len(eventListeners[event]) : eventListeners[event][i].owner = "useChat"

\* callbacks a client of the service registers; the one named "thrower" throws
Callbacks ==
  {[owner |-> "first", session |-> Null], [owner |-> "second", session |-> Null],
   [owner |-> "thrower", session |-> Null]}

Throws(callback) == callback.owner = "thrower"

\* variant: no try/catch around the call, the first throw ends the loop
DispatchUncaught(list) ==
  IF \E i \in 1..Len(list) : Throws(list[i])
  THEN SubSeq(list, 1, CHOOSE i \in 1..Len(list) :
                         Throws(list[i]) /\ \A j \in 1..(i - 1) : ~Throws(list[j]))
  ELSE list

\* the calls made by the forEach of emit, each inside try/catch
Dispatch(list) == [i \in 1..Len(list) |-> list[i]]

\* this.emit(event, data) for an event of socket n, as far as the record goes
Forwarded(event, n) ==
  /\ invoked' = Dispatch(eventListeners[event])
  /\ emitSocket' = n

\* socket n reports connect
SocketConnect(n) ==
  /\ ~sockets[n].connected
  /\ sockets' = [sockets EXCEPT ![n].connected = TRUE]
  /\ isConnected' = TRUE
  /\ reconnectAttempts' = 0
  /\ Forwarded("connection_status", n)
  /\ IF HookListens("connection_status")
     THEN HandleConnectionStatus(TRUE)
     ELSE UNCHANGED hookVars
  /\ IF wsSessionId # Null
     THEN joinSession(wsSessionId, Len(sockets))
     ELSE UNCHANGED <<wsSessionId, serverLog>>
  /\ UNCHANGED <<eventListeners, failedEmitted, streamDropped, chunkLog, obsVars,
                 sessionVars, extraVars>>

ChannelConnect == \E n \in SocketIds : SocketConnect(n)

\* socket n reports disconnect
SocketDisconnect(n) ==
  /\ sockets[n].connected
  /\ sockets' = [sockets EXCEPT ![n].connected = FALSE]
  /\ isConnected' = FALSE
  /\ Forwarded("connection_status", n)
  /\ IF HookListens("connection_status")
     THEN HandleConnectionStatus(FALSE)
     ELSE UNCHANGED hookVars
  /\ streamDropped' = (streamDropped \/ (messages # <<>> /\ Last(messages).isStreaming))
  /\ UNCHANGED <<reconnectAttempts, wsSessionId, eventListeners, serverLog, failedEmitted,
                 chunkLog, obsVars, sessionVars, extraVars>>

ChannelDisconnect == \E n \in SocketIds : SocketDisconnect(n)

\* socket n reports connect_error: connection_error is emitted, and
\* connection_failed after it once the counter has reached the bound; the
\* handler of the second overwrites the error text set by the first
SocketConnectError(n) ==
  /\ ~sockets[n].connected
  /\ reconnectAttempts < MaxAttempts
  /\ failedEmitted < MaxFailed
  /\ isConnected' = FALSE
  /\ reconnectAttempts' = reconnectAttempts + 1
  /\ IF reconnectAttempts' >= maxReconnectAttempts
     THEN /\ failedEmitted' = failedEmitted + 1
          /\ Forwarded("connection_failed", n)
          /\ IF HookListens("connection_failed")
             THEN HandleConnectionFailed
             ELSE UNCHANGED hookVars
     ELSE /\ UNCHANGED failedEmitted
          /\ Forwarded("connection_error", n)
          /\ IF HookListens("connection_error")
             THEN HandleConnectionError(reconnectAttempts')
             ELSE UNCHANGED hookVars
  /\ UNCHANGED <<sockets, wsSessionId, eventListeners, serverLog, streamDropped, chunkLog,
                 obsVars, sessionVars, extraVars>>

ChannelConnectError == \E n \in SocketIds : SocketConnectError(n)

\* socket n delivers message_chunk
SocketChunk(n, chunk, isComplete) ==
  /\ sockets[n].connected
  /\ Forwarded("message_chunk", n)
  /\ IF HookListens("message_chunk")
     THEN HandleMessageChunk(chunk, isComplete)
     ELSE UNCHANGED hookVars
  /\ UNCHANGED <<sockets, isConnected, reconnectAttempts, wsSessionId, eventListeners,
                 serverLog, failedEmitted, streamDropped, obsVars, sessionVars, extraVars>>

ChannelChunk ==
  \E n \in SocketIds, chunk \in ChunkTexts, isComplete \in BOOLEAN :
    /\ Len(streamingMessageRef) + Len(chunk) <= MaxContent
    /\ (messages = <<>> \/ Last(messages).type # MESSAGE_TYPES.ASSISTANT) => Len(messages) < MaxMsgs
    /\ SocketChunk(n, chunk, isComplete)
    /\ UNCHANGED chunkLog

\* socket n delivers typing
SocketTyping(n, isTypingNow) ==
  /\ sockets[n].connected
  /\ Forwarded("typing", n)
  /\ IF HookListens("typing")
     THEN HandleTyping(isTypingNow)
     ELSE UNCHANGED hookVars
  /\ UNCHANGED <<sockets, isConnected, reconnectAttempts, wsSessionId, eventListeners,
                 serverLog, failedEmitted, streamDropped, chunkLog, obsVars, sessionVars,
                 extraVars>>

ChannelTyping == \E n \in SocketIds, isTypingNow \in BOOLEAN : SocketTyping(n, isTypingNow)

\* WebSocketService.sendMessage(message, sessionId), called as sendMessageWS
\* calls it: with the sessionId of the hook
WsSendMessage ==
  \E sid \in {sessionId} :
    /\ IF sockets = <<>> \/ ~isConnected
       THEN /\ lastCall' = Call("websocketService.sendMessage", "thrown", 0)
            /\ UNCHANGED serverLog
       ELSE /\ lastCall' = Call("websocketService.sendMessage", "returned", 0)
            /\ serverLog' = serverLog \cup
                 {[socket |-> Len(sockets), event |-> "send_message",
                   arg |-> IF sid # Null THEN sid ELSE wsSessionId]}
    /\ UNCHANGED <<sockets, isConnected, reconnectAttempts, wsSessionId, eventListeners,
                   failedEmitted, invoked, emitSocket, streamDropped>>
    /\ UNCHANGED <<hookVars, chunkLog, armedAt, lastSignalAt, sessionVars, extraVars>>

\* websocketService.on("reconnected", callback) by a client
RegisterListener ==
  \E callback \in Callbacks :
    /\ Len(eventListeners["reconnected"]) < MaxListeners
    /\ eventListeners' = On(eventListeners, "reconnected", callback)
    /\ UNCHANGED <<sockets, isConnected, reconnectAttempts, wsSessionId, serverLog,
                   failedEmitted, invoked, emitSocket, streamDropped>>
    /\ UNCHANGED <<hookVars, chunkLog, obsVars, sessionVars, extraVars>>

\* websocketService.off("reconnected", callback) by a client
UnregisterListener ==
  \E callback \in Callbacks :
    /\ eventListeners' = Off(eventListeners, "reconnected", callback)
    /\ UNCHANGED <<sockets, isConnected, reconnectAttempts, wsSessionId, serverLog,
                   failedEmitted, invoked, emitSocket, streamDropped>>
    /\ UNCHANGED <<hookVars, chunkLog, obsVars, sessionVars, extraVars>>

\* socket n reports reconnect: "reconnected" is emitted to its listeners
SocketReconnect(n) ==
  /\ sockets' = [sockets EXCEPT ![n].connected = TRUE]
  /\ isConnected' = TRUE
  /\ Forwarded("reconnected", n)
  /\ UNCHANGED <<reconnectAttempts, wsSessionId, eventListeners, serverLog, failedEmitted,
                 streamDropped>>
  /\ UNCHANGED <<hookVars, chunkLog, obsVars, sessionVars, extraVars>>

ChannelReconnect == \E n \in SocketIds : SocketReconnect(n)

\* a message_chunk event of socket n in a run that records its chunks
ResumedChunk ==
  \E n \in SocketIds, chunk \in OrderedChunkTexts, isComplete \in BOOLEAN :
    /\ Len(chunkLog) < MaxChunks
    /\ SocketChunk(n, chunk, isComplete)
    /\ chunkLog' = Append(chunkLog, [chunk |-> chunk, isComplete |-> isComplete])

\* one streamed answer over a channel that drops and comes back
NextResume ==
  \/ ResumedChunk
  \/ ChannelConnect
  \/ ChannelDisconnect
  \/ ChannelConnectError

SpecResume == InitChunks /\ [][NextResume]_vars

\* the application before anything is mounted, with an empty slot
InitFresh == Init /\ storage = Absent

\* session switches, the sockets they open and what these deliver
NextChannel ==
  \/ SetSession
  \/ ChannelConnect
  \/ ChannelDisconnect
  \/ ChannelChunk
  \/ WsSendMessage

SpecChannel == InitFresh /\ [][NextChannel]_vars

\* registrations and an event that only clients listen to
NextEmit ==
  \/ RegisterListener
  \/ UnregisterListener
  \/ ChannelReconnect

SpecEmit == InitMounted /\ [][NextEmit]_vars

\* failing connection attempts
NextReconnect ==
  \/ SetSession
  \/ ChannelConnect
  \/ ChannelDisconnect
  \/ ChannelConnectError
  \/ ChannelTyping

SpecReconnect == InitFresh /\ [][NextReconnect]_vars

(* ----------------------- statistics and export ----------------------- *)

\* the data field of a statistics response
StatsResponses == {"stats-1"}

\* loadSessionStats up to the await of sessionAPI.getStats
LoadSessionStats ==
  /\ persistedFor # Unmounted
  /\ Request("stats", Null, FALSE) \notin pending
  /\ pending' = pending \cup {Request("stats", Null, FALSE)}
  /\ UNCHANGED <<currentSessionId, sessionHistory, isCreatingSession, isClearingSession,
                 isLoadingHistory, sessionError, storage, persistedFor>>
  /\ UNCHANGED <<hookVars, chunkLog, obsVars, extraVars, wsVars>>

\* sessionAPI.getStats resolved: setSessionStats(stats)
StatsSettleSuccess(stats) ==
  /\ Request("stats", Null, FALSE) \in pending
  /\ pending' = pending \ {Request("stats", Null, FALSE)}
  /\ sessionStats' = stats
  /\ UNCHANGED <<currentSessionId, sessionHistory, isCreatingSession, isClearingSession,
                 isLoadingHistory, sessionError, storage, persistedFor>>
  /\ UNCHANGED <<hookVars, chunkLog, obsVars, exported, sseVars, wsVars>>

StatsResolve == \E stats \in StatsResponses : StatsSettleSuccess(stats)

\* sessionAPI.getStats rejected: the catch block returns null
StatsReject ==
  /\ Request("stats", Null, FALSE) \in pending
  /\ pending' = pending \ {Request("stats", Null, FALSE)}
  /\ UNCHANGED <<currentSessionId, sessionHistory, isCreatingSession, isClearingSession,
                 isLoadingHistory, sessionError, storage, persistedFor>>
  /\ UNCHANGED <<hookVars, chunkLog, obsVars, extraVars, wsVars>>

\* variant: the statistics are left out of the returned value
ExportValueWithoutStats(id, history, stats, t) ==
  [sessionId |-> id, history |-> history, stats |-> Null, exportedAt |-> t]

\* the object exportSessionData returns
ExportValue(id, history, stats, t) ==
  [sessionId |-> id, history |-> history, stats |-> stats, exportedAt |-> t]

ExportSessionData ==
  /\ persistedFor # Unmounted
  /\ exported' = ExportValue(currentSessionId, sessionHistory, sessionStats, now)
  /\ UNCHANGED <<hookVars, chunkLog, obsVars, sessionVars, sessionStats, sseVars, wsVars>>

NextExport ==
  \/ Mount
  \/ CreateResolve
  \/ CreateReject
  \/ LoadSessionHistory
  \/ LoadResolve
  \/ LoadReject
  \/ LoadSessionStats
  \/ StatsResolve
  \/ StatsReject
  \/ ExportSessionData

SpecExport == Init /\ [][NextExport]_vars

(* ------------------------- chatAPI.streamMessage ----------------------- *)

NL == "\n"

\* the literal "data: "
DataPrefix == <<"d", "a", "t", "a", ":", " ">>

\* the JSON texts a frame may carry: two numbers and a malformed text
JsonTexts == {<<"1">>, <<"2", "3">>, <<"{">>}

FrameLists == UNION {[1..n -> JsonTexts] : n \in 0..MaxFrames}

Digit(c) == CHOOSE n \in 0..9 : ToString(n) = c

\* JSON.parse throws on anything but a number literal, among these texts
JsonValid(text) ==
  text # <<>> /\ \A i \in 1..Len(text) : \E n \in 0..9 : ToString(n) = text[i]

RECURSIVE JsonParse(_)
JsonParse(text) ==
  IF Len(text) = 1
  THEN Digit(text[1])
  ELSE 10 * JsonParse(SubSeq(text, 1, Len(text) - 1)) + Digit(text[Len(text)])

\* the body of a response made of complete "data: <json>\n\n" frames
RECURSIVE Body(_)
Body(list) ==
  IF list = <<>>
  THEN <<>>
  ELSE DataPrefix \o list[1] \o <<NL, NL>> \o Body(Tail(list))

\* text.split("\n\n")
RECURSIVE Split(_)
Split(text) ==
  IF \E i \in 1..(Len(text) - 1) : text[i] = NL /\ text[i + 1] = NL
  THEN LET i == CHOOSE k \in 1..(Len(text) - 1) :
                  /\ text[k] = NL /\ text[k + 1] = NL
                  /\ \A j \in 1..(k - 1) : ~(text[j] = NL /\ text[j + 1] = NL)
       IN <<SubSeq(text, 1, i - 1)>> \o Split(SubSeq(text, i + 2, Len(text)))
  ELSE <<text>>

\* line.startsWith("data: ")
StartsWithData(line) ==
  Len(line) >= Len(DataPrefix) /\ SubSeq(line, 1, Len(DataPrefix)) = DataPrefix

\* line.slice(6)
Slice6(line) == SubSeq(line, 7, Len(line))

\* the onChunk calls of the for loop over the lines of one read
ChunkCalls(lines) ==
  LET parsed == SelectSeq(lines, LAMBDA line : StartsWithData(line) /\ JsonValid(Slice6(line)))
  IN [i \in 1..Len(parsed) |-> JsonParse(Slice6(parsed[i]))]

\* variant: nothing is kept for the next read
LeftoverDropped(lines) == <<>>

\* buffer = lines.pop() || ""
Leftover(lines) == Last(lines)

\* streamMessage up to the first reader.read() of a response that is ok
StreamMessage ==
  \E list \in FrameLists :
    /\ readerState = "none"
    /\ frames' = list
    /\ unread' = Body(list)
    /\ buffer' = <<>>
    /\ onChunkCalls' = <<>>
    /\ reads' = 0
    /\ readerState' = "open"
    /\ UNCHANGED <<hookVars, chunkLog, obsVars, sessionVars, sessionStats, exported, wsVars>>

\* reader.read() returned the next n characters: one pass of the while loop
ReadValue ==
  \E n \in 1..Len(unread) :
    LET lines == Split(buffer \o SubSeq(unread, 1, n))
    IN /\ readerState = "open"
       /\ unread' = SubSeq(unread, n + 1, Len(unread))
       /\ buffer' = Leftover(lines)
       /\ onChunkCalls' = onChunkCalls \o ChunkCalls(SubSeq(lines, 1, Len(lines) - 1))
       /\ reads' = reads + 1
       /\ UNCHANGED <<frames, readerState>>
       /\ UNCHANGED <<hookVars, chunkLog, obsVars, sessionVars, sessionStats, exported,
                      wsVars>>

\* reader.read() returned done: the loop ends
ReadDone ==
  /\ readerState = "open"
  /\ unread = <<>>
  /\ readerState' = "done"
  /\ UNCHANGED <<frames, unread, buffer, onChunkCalls, reads>>
  /\ UNCHANGED <<hookVars, chunkLog, obsVars, sessionVars, sessionStats, exported, wsVars>>

NextSse ==
  \/ StreamMessage
  \/ ReadValue
  \/ ReadDone

SpecSse == InitMounted /\ [][NextSse]_vars

(* ------------------------- validation of sends ------------------------ *)

\* a text one character longer than the limit
LongTexts == {[i \in 1..(MAX_MESSAGE_LENGTH + 1) |-> "x"]}

\* sendMessage(message) called by a client of the hook, the call recorded
ObservedSend ==
  \E message \in UserTexts \cup LongTexts :
    /\ SendMessageHTTP(message)
    /\ lastCall' = [op |-> "sendMessage", text |-> message,
                    transport |-> SendAccepted(message, rendered.isLoading),
                    errorSeen |-> error, result |-> "returned", held |-> Len(messages)]
    /\ UNCHANGED <<chunkLog, extraVars, wsVars, armedAt, lastSignalAt, sessionVars>>

\* the send button of ChatInterface, the call recorded
ObservedHandleSend ==
  \E inputValue \in UserTexts \cup LongTexts :
    /\ HandleSendInput(inputValue)
    /\ lastCall' = [op |-> "handleSendMessage", text |-> inputValue,
                    transport |-> /\ Trim(inputValue) # <<>>
                                  /\ rendered.canSendMessage
                                  /\ SendAccepted(Trim(inputValue), rendered.isLoading),
                    errorSeen |-> error, result |-> "returned", held |-> Len(messages)]
    /\ UNCHANGED <<chunkLog, extraVars, wsVars, armedAt, lastSignalAt, sessionVars>>

NextValidate ==
  \/ ObservedSend
  \/ ObservedHandleSend
  \/ HttpResolve
  \/ HttpReject
  \/ Render
  \/ ClearMessages

SpecValidate == InitMounted /\ [][NextValidate]_vars

(* ------------------------------ retries ------------------------------- *)

\* Try Again on the bubble of error message i: MessageBubble.handleRetry hands
\* the message object of the bubble to retryMessage, and past the counter
\* test sendMessageHTTP calls trim on that object, which throws a TypeError
\* before any state is set
HandleRetry ==
  \E i \in 1..Len(messages) :
    /\ messages[i].type = MESSAGE_TYPES.ERROR
    /\ IF RetryAllowed(retryCountRef)
       THEN /\ retryCountRef' = retryCountRef + 1
            /\ lastCall' = [NoCall EXCEPT !.op = "handleRetry", !.result = "thrown"]
            /\ UNCHANGED error
       ELSE /\ error' = RetryExhaustedText
            /\ lastCall' = [NoCall EXCEPT !.op = "handleRetry", !.result = "returned"]
            /\ UNCHANGED retryCountRef
    /\ UNCHANGED <<messages, streamingMessageRef, isLoading, isTyping, chatState,
                   isWebSocketConnected, typingTimeoutRef, inflight, rendered, sessionId,
                   now>>
    /\ UNCHANGED <<chunkLog, armedAt, lastSignalAt, sessionVars, extraVars, wsVars>>

NextRetry ==
  \/ RetryMessage
  \/ HandleRetry
  \/ HttpReject
  \/ HttpResolve
  \/ Render
  \/ ClearError
  \/ ClearMessages
  \/ ConnectionStatus

SpecRetry == InitMounted /\ [][NextRetry]_vars

(* ------------------------- the watchdog in time ----------------------- *)

\* the clock behind Date.now() and the timers advances
Tick ==
  /\ now < MaxTicks * TickMs
  /\ now' = now + TickMs
  /\ UNCHANGED <<messages, streamingMessageRef, isLoading, isTyping, chatState, error,
                 isWebSocketConnected, typingTimeoutRef, retryCountRef, inflight, rendered,
                 sessionId, chunkLog, restVars>>

\* a typing event at the current time: setTimeout(..., 10000) when typing is on
TimedTyping ==
  \E isTypingNow \in BOOLEAN :
    /\ HandleTyping(isTypingNow)
    /\ armedAt' = IF isTypingNow THEN now ELSE armedAt
    /\ lastSignalAt' = now
    /\ UNCHANGED <<chunkLog, extraVars, wsVars, lastCall, sessionVars>>

\* a message_chunk event at the current time: the handler sets no timer
TimedChunk ==
  \E chunk \in ChunkTexts, isComplete \in BOOLEAN :
    /\ Len(streamingMessageRef) + Len(chunk) <= MaxContent
    /\ HandleMessageChunk(chunk, isComplete)
    /\ lastSignalAt' = now
    /\ UNCHANGED <<chunkLog, extraVars, wsVars, lastCall, armedAt, sessionVars>>

\* the pending timer fires once its delay has passed
TimedWatchdog ==
  /\ now >= armedAt + TYPING_TIMEOUT_MS
  /\ WatchdogFire

NextWatchdog ==
  \/ Tick
  \/ TimedTyping
  \/ TimedChunk
  \/ TimedWatchdog

SpecWatchdog == InitMounted /\ [][NextWatchdog]_vars

\* messages created while the clock may or may not advance between them
NextIds ==
  \/ Tick
  \/ MessageChunk
  \/ MessageComplete
  \/ AddSystemMessage
  \/ ClearMessages

SpecIds == InitMounted /\ [][NextIds]_vars

(* ------------------------------ claims -------------------------------- *)

Streaming(list) == {i \in 1..Len(list) : list[i].isStreaming}

Front(list) == SubSeq(list, 1, Len(list) - 1)

LastIsAssistant(list) == list # <<>> /\ Last(list).type = MESSAGE_TYPES.ASSISTANT

RECURSIVE Concat(_)
Concat(log) == IF log = <<>> THEN <<>> ELSE log[1].chunk \o Concat(Tail(log))

OnlyLastComplete(log) ==
  /\ log # <<>>
  /\ Last(log).isComplete
  /\ \A i \in 1..(Len(log) - 1) : ~log[i].isComplete

\* C1: in a run of message_chunk events only, after each event at most one
\* message of the list has isStreaming = true.
C1_AtMostOneStreamingInChunkRuns == Cardinality(Streaming(messages)) <= 1

\* two chunks were handled from the empty list and one message is streaming
C1_Witness ==
  /\ Len(chunkLog) >= 2
  /\ Len(messages) = 1
  /\ Streaming(messages) = {1}

\* C2: in every reachable state of the hook, whatever the interleaving of
\* events and calls, at most one message has isStreaming = true.
C2_SingleOpenMessage ==
  \A i, j \in 1..Len(messages) :
    (messages[i].isStreaming /\ messages[j].isStreaming) => i = j

\* the turn is over: the response has arrived and the last chunk was complete
TurnDone ==
  /\ messages # <<>>
  /\ inflight = 0
  /\ chunkLog # <<>>
  /\ Last(chunkLog).isComplete

\* C3: a turn whose HTTP exchange succeeds and whose chunks end with
\* isComplete = true leaves exactly the user message followed by one
\* assistant message that is not streaming, in every interleaving.
C3_TurnLeavesTwoMessages ==
  TurnDone =>
    /\ Len(messages) = 2
    /\ messages[1].type = MESSAGE_TYPES.USER
    /\ messages[2].type = MESSAGE_TYPES.ASSISTANT
    /\ ~messages[2].isStreaming

C5_CompleteIsAuthoritative ==
  [][\A F \in FullResponses :
       (F # <<>> /\ LastIsAssistant(messages) /\ HandleMessageComplete(F)) =>
         /\ Len(messages') = Len(messages)
         /\ Front(messages') = Front(messages)
         /\ Last(messages').content = F
         /\ ~Last(messages').isStreaming
         /\ ~isTyping'
         /\ chatState' = CHAT_STATES.IDLE
         /\ streamingMessageRef' = <<>>]_vars

\* the last message carries the full response of a message_complete event
C5_Witness ==
  /\ LastIsAssistant(messages)
  /\ Last(messages).content = <<"F">>
  /\ ~Last(messages).isStreaming
  /\ ~isTyping
  /\ chatState = CHAT_STATES.IDLE
  /\ streamingMessageRef = <<>>

\* C6: once an assistant message has isStreaming = false, no later event
\* changes its content or sets isStreaming back to true.
C6_CompletedIsImmutable ==
  [][\A i \in 1..Len(messages) :
       (/\ messages[i].type = MESSAGE_TYPES.ASSISTANT
        /\ ~messages[i].isStreaming
        /\ i <= Len(messages')) =>
         /\ messages'[i].content = messages[i].content
         /\ ~messages'[i].isStreaming]_vars

\* C7: a message_chunk applied to a streaming assistant message leaves its
\* previous content as a prefix: new content = old content + chunk text.
C7_StreamingContentGrows ==
  [][\A chunk \in ChunkTexts, isComplete \in BOOLEAN :
       (/\ LastIsAssistant(messages)
        /\ Last(messages).isStreaming
        /\ HandleMessageChunk(chunk, isComplete)) =>
         Last(messages').content = Last(messages).content \o chunk]_vars

\* C8: a user message is appended only in a state where no message is
\* streaming and no send is in flight.
C8_UserMessageOnlyWhenQuiet ==
  [][(/\ Len(messages') = Len(messages) + 1
      /\ Last(messages').type = MESSAGE_TYPES.USER) =>
        /\ Streaming(messages) = {}
        /\ inflight = 0]_vars

\* C9: an accepted HTTP send appends the user message before the exchange
\* starts; success appends exactly one assistant message that is not
\* streaming and carries the response's context and source; failure appends
\* exactly one error message with the failure text and touches no assistant
\* message; in both outcomes isLoading ends false.
C9_HttpSendOutcome ==
  [][/\ \A message \in UserTexts :
          (SendAccepted(message, rendered.isLoading) /\ SendMessageHTTP(message)) =>
            /\ messages' = Append(messages, Last(messages'))
            /\ Last(messages').type = MESSAGE_TYPES.USER
            /\ Last(messages').content = message
            /\ inflight' = inflight + 1
     /\ \A resp \in HttpResponses :
          HttpSettleSuccess(resp) =>
            /\ messages' = Append(messages, Last(messages'))
            /\ Last(messages').type = MESSAGE_TYPES.ASSISTANT
            /\ ~Last(messages').isStreaming
            /\ Last(messages').content = resp.botResponse
            /\ resp.hasContext => Last(messages').metadata.context = resp.context
            /\ resp.hasSource => Last(messages').metadata.source = resp.source
            /\ ~isLoading'
     /\ \A errorMessage \in HttpErrors :
          HttpSettleFailure(errorMessage) =>
            /\ messages' = Append(messages, Last(messages'))
            /\ Last(messages').type = MESSAGE_TYPES.ERROR
            /\ \E k \in 1..Len(Last(messages').content) :
                 Last(messages').content[k] = errorMessage
            /\ ~isLoading']_vars

\* the list holds the assistant message of a successful exchange and the
\* error message of a failed one, and nothing is loading any more
C9_Witness ==
  /\ \E i \in 1..Len(messages) :
       /\ messages[i].type = MESSAGE_TYPES.ASSISTANT
       /\ messages[i].metadata.source = "rag"
       /\ messages[i].metadata.context = <<"doc">>
  /\ \E j \in 1..Len(messages) :
       /\ messages[j].type = MESSAGE_TYPES.ERROR
       /\ messages[j].id.suffix = "error"
  /\ ~isLoading
  /\ inflight = 0

\* C10: after a typing(true) event the typing flag becomes false again,
\* unless a further typing event arrives: the watchdog fires.
C10_TypingWatchdog ==
  (<>[][~(\E isTypingNow \in BOOLEAN : HandleTyping(isTypingNow))]_vars) =>
    [](isTyping => <>(~isTyping))

\* C11: every typing event and every message_chunk event cancels and rearms
\* the watchdog: the watchdog never forces the typing flag to false earlier
\* than one full timeout after the most recent typing or chunk event.
\* (A step that fires the timer is told from a typing(false) event by the
\* time of the last signal, which only an event moves: lastSignalAt < now.)
C11_WatchdogRearmedBySignals ==
  [][(isTyping /\ lastSignalAt < now /\ TimedWatchdog)
       => now >= lastSignalAt + TYPING_TIMEOUT_MS]_vars

\* C12: the retry counter never exceeds 3, and a retryMessage call made with
\* the counter at 3 (three retries spent, no reset in between) starts no send:
\* no message is appended, no request goes out, and the error becomes
\* "Failed to send message after 3 attempts".
C12_RetryBudget ==
  /\ [](retryCountRef <= maxRetries)
  /\ [][(retryCountRef = maxRetries /\ RetryMessage)
          => /\ messages' = messages
             /\ inflight' = inflight
             /\ retryCountRef' = retryCountRef
             /\ error' = RetryExhaustedText]_vars

\* three retries were spent, the last send failed, and the fourth was refused
C12_Witness ==
  /\ retryCountRef = maxRetries
  /\ error = RetryExhaustedText
  /\ inflight = 0
  /\ messages # <<>>
  /\ Last(messages).type = MESSAGE_TYPES.ERROR

\* C13: the retry counter goes back to 0 only on a successful send or on
\* clearError: a successful send resets it, and no other event (connection
\* status "connected" in particular) does.
C13_RetryCounterResets ==
  [][/\ HttpResolve => retryCountRef' = 0
     /\ (retryCountRef > 0 /\ retryCountRef' = 0)
          => (ClearError \/ HttpResolve \/ HandleSendMessage)]_vars

\* C14: sendMessage with a text that is empty after trimming has no effect:
\* no request goes out, no message is appended, and isLoading, chatState and
\* error keep their values.
C14_BlankSendRejected ==
  [][\A message \in UserTexts :
       (Trim(message) = <<>> /\ SendMessageHTTP(message))
         => UNCHANGED <<messages, inflight, isLoading, chatState, error>>]_vars

\* a blank text was sent directly while an error was showing, and it still shows
C14_Witness ==
  /\ lastCall.op = "sendMessage"
  /\ lastCall.text # <<>>
  /\ Trim(lastCall.text) = <<>>
  /\ ~lastCall.transport
  /\ lastCall.errorSeen # Null
  /\ error = lastCall.errorSeen
  /\ chatState = CHAT_STATES.ERROR
  /\ Len(messages) = 2
  /\ inflight = 0

\* C15: sendMessage with a text longer than 500 characters is rejected before
\* any network call: no request goes out and no user message is appended.
C15_LongSendRejected ==
  [][\A message \in LongTexts :
       (SendMessageHTTP(message) \/ HandleSendInput(message))
         => UNCHANGED <<messages, inflight>>]_vars

\* C16: when the backend clear succeeds, clearing the session empties the
\* displayed message list (whatever its length, 5 included) and the session
\* history, and leaves currentSessionId unchanged.
C16_ClearEmptiesList ==
  [][\A req \in pending :
       (req.ui /\ ClearSettleSuccess(req))
         => /\ messages' = <<>>
            /\ sessionHistory' = <<>>
            /\ currentSessionId' = currentSessionId]_vars

\* a clear succeeded on a list of 5 messages, and the session is still there
C16_Witness ==
  /\ lastCall.op = "handleClearSession"
  /\ lastCall.result = "cleared"
  /\ lastCall.held = 5
  /\ messages = <<>>
  /\ currentSessionId # Null

\* C17: when the backend clear fails, the local state is untouched and the
\* error is reported: neither the session history nor the displayed message
\* list is emptied, and the session error is set.
C17_FailedClearKeepsState ==
  [][\A req \in pending, message \in SessionErrors :
       (req.ui /\ ClearSettleFailure(req, message))
         => /\ messages' = messages
            /\ sessionHistory' = sessionHistory
            /\ sessionError' # Null]_vars

\* C18: createNewSession: on success currentSessionId becomes the new id and
\* the history is emptied; on failure the error is recorded (and rethrown)
\* with currentSessionId and the history unchanged; either way
\* isCreatingSession ends false.
C18_CreateOutcome ==
  /\ [][\A newSessionId \in SessionIds :
          CreateSettleSuccess(newSessionId)
            => /\ currentSessionId' = newSessionId
               /\ sessionHistory' = <<>>
               /\ ~isCreatingSession']_vars
  /\ [][\A message \in SessionErrors :
          CreateSettleFailure(message)
            => /\ sessionError' # Null
               /\ lastCall'.result = "thrown"
               /\ currentSessionId' = currentSessionId
               /\ sessionHistory' = sessionHistory
               /\ ~isCreatingSession']_vars

\* a create failed on a session that had a history, and both are still there
C18_Witness ==
  /\ lastCall.op = "createNewSession"
  /\ lastCall.result = "thrown"
  /\ lastCall.held > 0
  /\ sessionHistory # <<>>
  /\ currentSessionId # Null
  /\ sessionError = SERVER_ERROR
  /\ ~isCreatingSession

\* C19: a failed history load is not fatal: the history becomes empty, the
\* failure sets no session error, currentSessionId is unchanged and
\* isLoadingHistory ends false.
C19_FailedLoadNotFatal ==
  [][\A req \in pending :
       LoadSettleFailure(req)
         => /\ sessionHistory' = <<>>
            /\ sessionError' = sessionError
            /\ currentSessionId' = currentSessionId
            /\ ~isLoadingHistory']_vars

\* a load failed on a session that had a history; no error, same session
C19_Witness ==
  /\ lastCall.op = "loadSessionHistory"
  /\ lastCall.result = "failed"
  /\ lastCall.held > 0
  /\ sessionHistory = <<>>
  /\ sessionError = Null
  /\ currentSessionId # Null
  /\ ~isLoadingHistory

C21_ExportIsPureRead ==
  [][ExportSessionData
       => /\ exported' = [sessionId |-> currentSessionId, history |-> sessionHistory,
                          stats |-> sessionStats, exportedAt |-> now]
          /\ UNCHANGED <<currentSessionId, sessionHistory, sessionStats, sessionError,
                         storage>>]_vars

\* a session with a history and statistics was exported and is still the same
C21_Witness ==
  /\ exported.sessionId # Null
  /\ exported.history # <<>>
  /\ exported.stats # Null
  /\ currentSessionId = exported.sessionId
  /\ sessionHistory = exported.history
  /\ sessionStats = exported.stats
  /\ storage = exported.sessionId

\* C22: connect(sessionId) binds the channel to the session: once the socket
\* opened by connect(sessionId), sessionId not null, has reported connect,
\* join_session(sessionId) has been emitted on it and the service's
\* currentSessionId is sessionId; also for the first connect of a fresh service.
C22_ConnectJoinsSession ==
  (sockets # <<>> /\ Last(sockets).connected /\ Last(sockets).session # Null)
    => /\ [socket |-> Len(sockets), event |-> "join_session",
            arg |-> Last(sockets).session] \in serverLog
       /\ wsSessionId = Last(sockets).session

\* C23: at most one socket is active at any time: no earlier socket stays
\* open and forwarding events after connect is called again.
C23_AtMostOneActiveSocket ==
  Cardinality({n \in SocketIds : sockets[n].connected}) <= 1

\* C24: when sessionId changes, the handlers of the old session are all
\* unregistered before those of the new one are registered, and afterwards no
\* event delivered by the channel opened for the old session changes the
\* message list, the typing flag or chatState.
C24_OldChannelIsSilent ==
  /\ [](\A e \in HookEvents :
          eventListeners[e] = IF sessionId = Null THEN <<>> ELSE <<HookHandler(sessionId)>>)
  /\ [][\A n \in SocketIds, chunk \in ChunkTexts, isComplete \in BOOLEAN :
          (sockets[n].session # sessionId /\ SocketChunk(n, chunk, isComplete))
            => UNCHANGED <<messages, isTyping, chatState>>]_vars

\* C27: WebSocketService.sendMessage emits nothing unless there is an active
\* connected channel: send_message is never emitted on a socket that has not
\* reported connect.
C27_SendNeedsConnectedSocket ==
  [][\A r \in serverLog' \ serverLog :
       r.event = "send_message" => sockets[r.socket].connected]_vars

\* C29: connection_failed is emitted once, when the fifth consecutive
\* connect_error arrives, and later connect_error events of the same run of
\* failures emit it no more.
C29_FailedIsTerminal ==
  [][failedEmitted' > failedEmitted
       => reconnectAttempts' = maxReconnectAttempts]_vars

\* C25: if the channel disconnects while an assistant message is streaming
\* and then reconnects, the chunks received afterwards create no second
\* assistant message: the turn has exactly one assistant message, the one
\* after the list the turn started from.
C25_OneAssistantAcrossReconnect ==
  IF chunkLog = <<>>
  THEN messages \in ChunkInitLists
  ELSE /\ Front(messages) \in ChunkInitLists
       /\ Last(messages).type = MESSAGE_TYPES.ASSISTANT

\* the channel dropped while the message was streaming, came back, and a
\* later chunk completed the same message
C25_Witness ==
  /\ streamDropped
  /\ sockets[1].connected
  /\ Len(chunkLog) >= 2
  /\ Last(chunkLog).isComplete
  /\ ~Last(messages).isStreaming
  /\ Last(messages).content = Concat(chunkLog)

\* C26: a result in flight when the state is torn down is discarded: after
\* clearMessages has emptied the list while a send was in flight (the list is
\* empty and a request is still out), the late response appends neither an
\* assistant nor an error message.
C26_LateResultDiscarded ==
  [][(messages = <<>> /\ inflight > 0 /\ (HttpResolve \/ HttpReject))
       => messages' = messages]_vars

\* C28: when the service emits an event, all handlers registered for that
\* event name are invoked in registration order, each exactly once, and a
\* handler that throws does not keep the handlers after it from running.
C28_EmitRunsAllInOrder ==
  [][\A n \in SocketIds :
       SocketReconnect(n) => invoked' = eventListeners["reconnected"]]_vars

\* three handlers were run in the order of registration, the thrower first
C28_Witness ==
  /\ emitSocket # 0
  /\ Len(invoked) = 3
  /\ Throws(invoked[1])
  /\ ~Throws(invoked[2])
  /\ invoked = eventListeners["reconnected"]

\* C30: startNewSession issues no clear request for the previous session;
\* the history of that session is kept.
C30_NoClearForPreviousSession ==
  [][HandleNewSession => \A req \in pending' \ pending : req.kind # "clear"]_vars

\* C31: after a successful turn the list that getSessionInfo().messageCount
\* and exportSessionData().history report (sessionHistory) contains that
\* turn's user and assistant messages.
C31_HistoryFollowsTurn ==
  [][HttpResolve => Len(sessionHistory') >= 2]_vars

\* C32: when Try Again is pressed on an error bubble and the retry counter is
\* below the bound, retryMessage makes one transport call that carries the
\* text of the failed user message.
C32_TryAgainResends ==
  [][(retryCountRef < maxRetries /\ HandleRetry) => inflight' = inflight + 1]_vars

\* C33: all messages in the list have pairwise distinct ids in every
\* reachable state, including when two messages of the same kind are created
\* within the same clock millisecond.
C33_DistinctIds ==
  \A i, j \in 1..Len(messages) : i # j => messages[i].id # messages[j].id

\* C34: whenever chatState is error the hook's error text is non-null; no
\* event sequence (connection_failed followed by a connection_status
\* connected event, for example) reaches chatState = error with error = null.
C34_ErrorStateHasText ==
  chatState = CHAT_STATES.ERROR => error # Null

\* C35: message_chunk and message_complete events touch only the tail of the
\* list: every message except the last keeps its id, type, content and
\* position, the last message keeps its id and type, a chunk changes the
\* list length by 0 or +1, and a complete event never changes the length.
C35_OnlyTailTouched ==
  [][((\E chunk \in ChunkTexts, isComplete \in BOOLEAN :
          HandleMessageChunk(chunk, isComplete))
      \/ (\E fullResponse \in FullResponses : HandleMessageComplete(fullResponse)))
     => /\ Len(messages') \in {Len(messages), Len(messages) + 1}
        /\ (\E fullResponse \in FullResponses : HandleMessageComplete(fullResponse))
             => Len(messages') = Len(messages)
        /\ \A i \in 1..(Len(messages) - 1) :
             /\ messages'[i].id = messages[i].id
             /\ messages'[i].type = messages[i].type
             /\ messages'[i].content = messages[i].content
        /\ messages # <<>> =>
             /\ messages'[Len(messages)].id = messages[Len(messages)].id
             /\ messages'[Len(messages)].type = messages[Len(messages)].type]_vars

\* a chunk opened a message behind a finished assistant message and a system
\* message, both still in place
C35_Witness ==
  /\ Len(messages) = 3
  /\ messages[1].type = MESSAGE_TYPES.ASSISTANT
  /\ ~messages[1].isStreaming
  /\ messages[1].content # <<>>
  /\ messages[2].type = MESSAGE_TYPES.SYSTEM
  /\ messages[3].type = MESSAGE_TYPES.ASSISTANT
  /\ messages[3].isStreaming
  /\ messages[3].content = streamingMessageRef

\* C36: after a transport error event is handled (typing cleared, chatState
\* error, accumulator reset) no message in the list is left with
\* isStreaming = true.
C36_ErrorEndsStreaming ==
  [][TransportError => \A i \in 1..Len(messages') : ~messages'[i].isStreaming]_vars

\* C37: the session history always belongs to the current session: a history
\* response for session A that arrives after currentSessionId has become B
\* is not stored as the history of B.
C37_StaleHistoryDropped ==
  [][\A req \in pending, history \in HistoryResponses :
       (/\ req.sid # currentSessionId
        /\ currentSessionId # Null
        /\ LoadSettleSuccess(req, history))
         => sessionHistory' = sessionHistory]_vars

\* the payloads of the frames whose JSON is well formed, in order
ExpectedCalls ==
  LET good == SelectSeq(frames, JsonValid)
  IN [i \in 1..Len(good) |-> JsonParse(good[i])]

\* C38: for a stream made of complete "data: <json>\n\n" frames, onChunk is
\* called once per frame, in order, with the same payloads for every split
\* of the stream into reads, and a frame whose JSON is malformed is skipped
\* without stopping later frames.
C38_FramesIndependentOfReads ==
  /\ readerState # "none" =>
       /\ Len(onChunkCalls) <= Len(ExpectedCalls)
       /\ onChunkCalls = SubSeq(ExpectedCalls, 1, Len(onChunkCalls))
  /\ readerState = "done" => onChunkCalls = ExpectedCalls

\* a malformed frame and a good one arrived in three or more reads, so that
\* a read ended inside a frame
C38_Witness ==
  /\ readerState = "done"
  /\ frames = <<<<"{">>, <<"2", "3">>>>
  /\ reads >= 3
  /\ onChunkCalls = <<23>>

====
